---- MODULE Spec2Model ----
(***************************************************************************)
(* Model of the AI provider layer of intern-progress-analyzer:             *)
(*   backend/utils/ai_providers/ai_manager.py      (AIManager)             *)
(*   backend/utils/ai_providers/base_provider.py   (BaseAIProvider)        *)
(*   backend/utils/ai_providers/ollama_provider.py (OllamaProvider)        *)
(*   backend/utils/ai_providers/openai_provider.py (OpenAIProvider)        *)
(*   backend/utils/ai_providers/claude_provider.py (ClaudeProvider)        *)
(*                                                                         *)
(* Spec      : AIManager.generate_report over a registry of BaseAIProvider *)
(*             instances.  One manager call is a sequence of steps, one    *)
(*             per provider method the manager invokes.                    *)
(* SpecProv  : the generate_report pipeline and test_connection of the     *)
(*             three concrete provider classes, driven by the outcomes of  *)
(*             their transport calls.                                      *)
(* SpecLive  : Spec with every provider call returning (weak fairness of   *)
(*             the steps of a manager call).                               *)
(* SpecOps   : get_available_providers, get_provider_health,               *)
(*             get_recommended_provider, estimate_report_cost and          *)
(*             set_default_provider over the registered instances, with    *)
(*             other callers probing the same instances, listing their     *)
(*             models and selecting a model in between.                    *)
(* SpecFn    : format_intern_data_for_ai, the three response parsers,      *)
(*             _calculate_performance_scores and                           *)
(*             _extract_individual_analysis, applied to bounded sets of    *)
(*             datasets and responses.                                     *)
(***************************************************************************)
EXTENDS Integers, Sequences, FiniteSets, TLC

VARIABLES
    providers,         \* AIManager.providers: the registered names
    default_provider,  \* AIManager.default_provider
    fallback_order,    \* AIManager.fallback_order
    behaviour,         \* how each provider instance currently answers
    last_error,        \* provider.last_error, per provider instance
    pc,                \* position of the running generate_report call
    req,               \* its arguments
    original_error,    \* the original_error argument of _try_fallback_providers
    fb,                \* fallback candidates not yet tried (head = current)
    calls,             \* provider methods invoked by the running call, in order
    result,            \* the value the call returns
    prev,              \* the previous completed call: request and provider_used
    prov,              \* a direct call of a concrete provider's generate_report
    inst,              \* per registered instance: client, available_models, model_name
    ops,               \* the running call of another AIManager operation
    fn                 \* a call of the formatter or of a response parser

\* The variables AIManager.generate_report works on.
genVars == <<fallback_order, behaviour, pc, req, original_error, fb, calls,
             result, prev>>
\* Every variable but prov.
mgrVars == <<providers, default_provider, fallback_order, behaviour, last_error,
             pc, req, original_error, fb, calls, result, prev, inst, ops, fn>>
vars == <<providers, default_provider, fallback_order, behaviour, last_error,
          pc, req, original_error, fb, calls, result, prev, prov, inst, ops, fn>>

----------------------------------------------------------------------------
(* Names and values                                                         *)

\* The three names _initialize_providers registers, in dict insertion order.
RegistryOrder == <<"ollama", "gpt4", "claude">>

ProviderNames == {"ollama", "gpt4", "claude"}

\* Names a caller may pass: the three known ones and one nobody registers.
RequestNames == ProviderNames \cup {"mistral"}

\* A dict key that is not set.
Absent == "absent"

\* provider.last_error is None
NoError == "None"

\* How a BaseAIProvider instance answers the two methods the manager calls:
\*   healthy      test_connection() is True, generate_report() returns a report
\*   gen_failure  test_connection() is True, generate_report() returns
\*                {'success': False, 'error': ...}
\*   gen_raise    test_connection() is True, generate_report() raises
\*   probe_false  test_connection() is False
\*   probe_raise  test_connection() raises
\* The manager only relies on the BaseAIProvider interface, so all five are
\* admitted.  The three concrete classes catch their own exceptions and, as
\* SpecProv shows, never get past create_report_structure: of the five they
\* realise gen_failure and probe_false.
Behaviours == {"healthy", "gen_failure", "gen_raise", "probe_false", "probe_raise"}

\* Performance scores a provider's report may carry: the values the parsers
\* assign (the initial 0 and the defaults 75, 80, 82 of their except branches).
ReportScores == {0, 75, 80, 82}

\* Error messages are sequences of strings, so that one message can embed another.
NotFound(name) == <<"not_found", name>>
NotAvailable(name) == <<"not_available", name>>
Raised(p, method) == <<"raised", p, method>>
ProviderFailure(p) == <<"provider_failure", p>>
FailedWith(name, e) == <<"failed_with", name>> \o e
AllFailed(e) == <<"all_failed">> \o e
NoMsg == << >>

\* e occurs inside the message m (Python: e in m)
Carries(m, e) ==
    /\ Len(e) > 0
    /\ Len(m) >= Len(e)
    /\ SubSeq(m, Len(m) - Len(e) + 1, Len(m)) = e

\* list(self.providers.keys())
Keys == SelectSeq(RegistryOrder, LAMBDA p : p \in providers)

NoKeys == <<Absent>>

\* No value returned yet.
NoResult ==
    [returned |-> FALSE, raised |-> FALSE, success |-> Absent, error |-> NoMsg,
     provider |-> Absent, score |-> -1,
     provider_used |-> Absent, fallback_used |-> Absent,
     original_provider |-> Absent, original_error |-> NoMsg,
     fallback_attempted |-> Absent, available_providers |-> NoKeys]

IsFailure(r) == r.returned /\ r.success = "false"
IsReport(r) == r.returned /\ r.success = Absent

----------------------------------------------------------------------------
(* The provider interface as the manager sees it                            *)

\* The provider's own test_connection(): "true", "false" or "raise"
TestConnectionOf(p) ==
    CASE behaviour[p] = "probe_false" -> "false"
      [] behaviour[p] = "probe_raise" -> "raise"
      [] OTHER -> "true"

\* Variant of ProbeResult: the manager trusts the cached last_error and
\* probes a provider only when an error is cached.
ProbeResultCached(p) ==
    IF last_error[p] = NoError THEN "true" ELSE TestConnectionOf(p)

\* The manager's probe of a provider: provider.test_connection(), called
\* afresh every time.
ProbeResult(p) == TestConnectionOf(p)

\* provider.generate_report(intern_data, report_type): "report", "failure" or
\* "raise".  The concrete classes probe again first and return a failure
\* value when that probe fails.
GenResult(p) ==
    CASE behaviour[p] = "healthy" -> "report"
      [] behaviour[p] = "gen_raise" -> "raise"
      [] behaviour[p] = "probe_raise" -> "raise"
      [] OTHER -> "failure"

\* provider.last_error after a probe: cleared by a successful probe, set by a
\* failed one, untouched when the probe raises.
LastErrorAfterProbe(p, out) ==
    CASE out = "true" -> NoError
      [] out = "false" -> "error"
      [] OTHER -> last_error[p]

\* The dict a provider returns for a generated report.
ProviderReport(p, s) ==
    [NoResult EXCEPT !.returned = TRUE, !.provider = p, !.score = s]

\* The dict a provider returns instead of raising:
\* {'success': False, 'error': ..., 'provider': ...}
ProviderFailureDict(p) ==
    [NoResult EXCEPT !.returned = TRUE, !.success = "false",
                     !.error = ProviderFailure(p), !.provider = p]

\* What provider.generate_report hands back when it does not raise.
ProviderReturn(p, s) ==
    IF GenResult(p) = "report" THEN ProviderReport(p, s) ELSE ProviderFailureDict(p)

----------------------------------------------------------------------------
(* AIManager.generate_report                                                *)

\* Variant of PrimaryTag: the primary report is tagged the way a fallback
\* report is.
PrimaryTagAsFallback(report, name) ==
    [report EXCEPT !.provider_used = name, !.fallback_used = "true"]

\* report['provider_used'] = provider_name; report['fallback_used'] = False
PrimaryTag(report, name) ==
    [report EXCEPT !.provider_used = name, !.fallback_used = "false"]

\* Variant of FallbackTag: original_error is taken from the report being
\* returned instead of from the requested provider's failure.
FallbackTagOwnError(report, candidate, failed, e) ==
    [report EXCEPT !.provider_used = candidate, !.fallback_used = "true",
                   !.original_provider = failed, !.original_error = report.error]

\* The four keys _try_fallback_providers sets on a fallback provider's report.
FallbackTag(report, candidate, failed, e) ==
    [report EXCEPT !.provider_used = candidate, !.fallback_used = "true",
                   !.original_provider = failed, !.original_error = e]

\* The failure returned for a registered provider when use_fallback is False.
NoFallbackFailure(name, e) ==
    [NoResult EXCEPT !.returned = TRUE, !.success = "false",
                     !.error = FailedWith(name, e), !.provider_used = name]

\* The failure returned for an unregistered name when use_fallback is False.
NotFoundFailure(name) ==
    [NoResult EXCEPT !.returned = TRUE, !.success = "false",
                     !.error = NotFound(name), !.available_providers = Keys]

\* The failure returned when the fallback loop ends without a return.
AllFailedResult(failed, e) ==
    [NoResult EXCEPT !.returned = TRUE, !.success = "false",
                     !.error = AllFailed(e), !.provider_used = failed,
                     !.fallback_attempted = "true", !.available_providers = Keys]

\* Variant of FallbackProviders: the provider that failed stays in the list.
FallbackProvidersWithFailed(failed) ==
    SelectSeq(fallback_order, LAMBDA p : p \in providers)

\* fallback_providers = [p for p in self.fallback_order
\*                       if p != failed_provider and p in self.providers]
FallbackProviders(failed) ==
    SelectSeq(fallback_order, LAMBDA p : p # failed /\ p \in providers)

\* Entering _try_fallback_providers(failed, ..., e) and reaching either the
\* first candidate's probe or, with no candidate, the final failure.
TryFallback(failed, e) ==
    /\ original_error' = e
    /\ fb' = FallbackProviders(failed)
    /\ IF FallbackProviders(failed) = << >>
         THEN /\ pc' = "done"
              /\ result' = AllFailedResult(failed, e)
         ELSE /\ pc' = "fb_probe"
              /\ result' = NoResult

\* Variant of PrimaryFailed: use_fallback is not consulted.
PrimaryFailedIgnoringFlag(e) == TryFallback(req.name, e)

\* except Exception as e: of the primary attempt
PrimaryFailed(e) ==
    IF req.use_fallback
      THEN TryFallback(req.name, e)
      ELSE /\ pc' = "done"
           /\ result' = NoFallbackFailure(req.name, e)
           /\ UNCHANGED <<original_error, fb>>

\* generate_report is called: the registry lookup, and for an unregistered
\* name the whole else branch.
Call(name, use_fallback) ==
    /\ pc = "idle"
    /\ req' = [name |-> name, use_fallback |-> use_fallback]
    /\ calls' = << >>
    /\ IF name \in providers
         THEN /\ pc' = "primary_probe"
              /\ result' = NoResult
              /\ UNCHANGED <<original_error, fb>>
         ELSE IF use_fallback
           THEN TryFallback(name, NotFound(name))
           ELSE /\ pc' = "done"
                /\ result' = NotFoundFailure(name)
                /\ UNCHANGED <<original_error, fb>>
    /\ UNCHANGED <<providers, default_provider, fallback_order, behaviour,
                   last_error, prev, prov, inst, ops, fn>>

\* if not provider.test_connection(): raise Exception(...)
PrimaryProbe ==
    /\ pc = "primary_probe"
    /\ calls' = Append(calls, <<req.name, "test_connection">>)
    /\ last_error' = [last_error EXCEPT
                        ![req.name] = LastErrorAfterProbe(req.name, ProbeResult(req.name))]
    /\ CASE ProbeResult(req.name) = "true" ->
              /\ pc' = "primary_gen"
              /\ UNCHANGED <<result, original_error, fb>>
         [] ProbeResult(req.name) = "false" ->
              PrimaryFailed(NotAvailable(req.name))
         [] OTHER ->
              PrimaryFailed(Raised(req.name, "test_connection"))
    /\ UNCHANGED <<providers, default_provider, fallback_order, behaviour,
                   req, prev, prov, inst, ops, fn>>

\* report = provider.generate_report(...); tag it; return it
PrimaryGenerate ==
    /\ pc = "primary_gen"
    /\ calls' = Append(calls, <<req.name, "generate_report">>)
    /\ last_error' = [last_error EXCEPT
                        ![req.name] = LastErrorAfterProbe(req.name, TestConnectionOf(req.name))]
    /\ IF GenResult(req.name) = "raise"
         THEN PrimaryFailed(Raised(req.name, "generate_report"))
         ELSE /\ \E s \in ReportScores :
                   result' = PrimaryTag(ProviderReturn(req.name, s), req.name)
              /\ pc' = "done"
              /\ UNCHANGED <<original_error, fb>>
    /\ UNCHANGED <<providers, default_provider, fallback_order, behaviour,
                   req, prev, prov, inst, ops, fn>>

\* Variant of NextCandidate: after the last candidate the loop waits for
\* another one instead of ending.
NextCandidateWaiting ==
    /\ fb' = Tail(fb)
    /\ result' = NoResult
    /\ pc' = IF Tail(fb) = << >> THEN "fb_wait" ELSE "fb_probe"

\* continue / end of the for loop over fallback_providers
NextCandidate ==
    /\ fb' = Tail(fb)
    /\ IF Tail(fb) = << >>
         THEN /\ pc' = "done"
              /\ result' = AllFailedResult(req.name, original_error)
         ELSE /\ pc' = "fb_probe"
              /\ result' = NoResult

\* Variant of FallbackExcept: the fallback loop has no except clause, so the
\* exception leaves generate_report.
FallbackExceptMissing(e) ==
    /\ pc' = "done"
    /\ result' = [NoResult EXCEPT !.raised = TRUE, !.error = e]
    /\ fb' = fb

\* except Exception as e: ... continue, inside the fallback loop
FallbackExcept(e) == NextCandidate

\* if provider.test_connection(): inside the fallback loop
FallbackProbe ==
    /\ pc = "fb_probe"
    /\ calls' = Append(calls, <<Head(fb), "test_connection">>)
    /\ last_error' = [last_error EXCEPT
                        ![Head(fb)] = LastErrorAfterProbe(Head(fb), ProbeResult(Head(fb)))]
    /\ CASE ProbeResult(Head(fb)) = "true" ->
              /\ pc' = "fb_gen"
              /\ UNCHANGED <<result, fb>>
         [] ProbeResult(Head(fb)) = "false" ->
              NextCandidate
         [] OTHER ->
              FallbackExcept(Raised(Head(fb), "test_connection"))
    /\ UNCHANGED <<providers, default_provider, fallback_order, behaviour,
                   req, original_error, prev, prov, inst, ops, fn>>

\* report = provider.generate_report(...) inside the fallback loop
FallbackGenerate ==
    /\ pc = "fb_gen"
    /\ calls' = Append(calls, <<Head(fb), "generate_report">>)
    /\ last_error' = [last_error EXCEPT
                        ![Head(fb)] = LastErrorAfterProbe(Head(fb), TestConnectionOf(Head(fb)))]
    /\ IF GenResult(Head(fb)) = "raise"
         THEN FallbackExcept(Raised(Head(fb), "generate_report"))
         ELSE /\ \E s \in ReportScores :
                   result' = FallbackTag(ProviderReturn(Head(fb), s), Head(fb),
                                         req.name, original_error)
              /\ pc' = "done"
              /\ UNCHANGED fb
    /\ UNCHANGED <<providers, default_provider, fallback_order, behaviour,
                   req, original_error, prev, prov, inst, ops, fn>>

\* The call has returned; the caller takes the value.
Return ==
    /\ pc = "done"
    /\ pc' = "idle"
    /\ prev' = [name |-> req.name, use_fallback |-> req.use_fallback,
                used |-> result.provider_used, same |-> TRUE]
    /\ result' = NoResult
    /\ calls' = << >>
    /\ fb' = << >>
    /\ original_error' = NoMsg
    /\ UNCHANGED <<providers, default_provider, fallback_order, behaviour,
                   last_error, req, prov, inst, ops, fn>>

\* Between calls a provider's backend comes up, goes down or starts failing.
EnvChange(p, b) ==
    /\ pc = "idle"
    /\ p \in providers
    /\ b # behaviour[p]
    /\ behaviour' = [behaviour EXCEPT ![p] = b]
    /\ prev' = [prev EXCEPT !.same = FALSE]
    /\ UNCHANGED <<providers, default_provider, fallback_order, last_error,
                   pc, req, original_error, fb, calls, result, prov, inst, ops, fn>>

----------------------------------------------------------------------------
(* generate_report of the concrete provider classes                         *)
(* (OllamaProvider, OpenAIProvider, ClaudeProvider), called directly        *)

\* The registry name stands for the class registered under it.
ProviderClasses == ProviderNames

ReportTypes == {"weekly", "monthly", "project_summary", "daily"}

\* self.prompts / self.system_prompts keys
PromptKeys == {"weekly", "monthly", "project_summary"}

\* What the transport does when test_connection calls it.
\*   ollama: GET /api/tags answers 200 with models, 200 without models,
\*           another status, 200 with a body that is not the expected JSON,
\*           or the request fails
\*   gpt4, claude: the 'Reply OK' completion answers OK, answers something
\*           else, or the client raises
ProbeTransports(c) ==
    IF c = "ollama"
      THEN {"models", "no_models", "bad_status", "bad_body", "conn_error"}
      ELSE {"ok", "unexpected", "exception"}

AllProbeTransports == UNION {ProbeTransports(c) : c \in ProviderNames}

\* The exception the body of test_connection's try block raises ("none"
\* when it runs to a return statement).
ProbeException(c, t) ==
    CASE t = "conn_error" -> "ConnectionError"
      [] t = "bad_body"   -> "ValueError"
      [] t = "exception"  -> "APIError"
      [] OTHER            -> "none"

\* Variant of Handles: only the ConnectionError clause.
HandlesConnectionErrorOnly(c, exc) == exc = "ConnectionError"

\* The except clauses of test_connection: OllamaProvider has
\* 'except requests.exceptions.ConnectionError' and 'except Exception',
\* OpenAIProvider and ClaudeProvider have 'except Exception'; every
\* exception the try block raises is an Exception.
Handles(c, exc) == exc \in {"ConnectionError", "ValueError", "APIError"}

\* What the transport does when the completion call is made: it answers
\* with text, answers with nothing, fails, or times out.
BackendOutcomes == {"text", "empty", "error", "timeout"}

\* True when test_connection returns True.  OpenAI and Claude return False
\* straight away without a client.
TestConnection(c, client, t) ==
    IF c = "ollama" THEN t = "models" ELSE client /\ t = "ok"

\* self.last_error after test_connection.  The early return of the OpenAI
\* and Claude classes (no client) assigns nothing.
LastErrorAfterTest(c, client, t, old) ==
    CASE c # "ollama" /\ ~client -> old
      [] ProbeException(c, t) # "none" /\ ~Handles(c, ProbeException(c, t)) -> old
      [] TestConnection(c, client, t) -> NoError
      [] OTHER -> "error"

\* What a call of test_connection gives its caller: "true", "false", or
\* "raise" when an exception leaves the method.
TestConnectionReturn(c, client, t) ==
    CASE c # "ollama" /\ ~client -> "false"
      [] ProbeException(c, t) # "none" /\ ~Handles(c, ProbeException(c, t)) -> "raise"
      [] TestConnection(c, client, t) -> "true"
      [] OTHER -> "false"

\* _call_ollama_api / _call_openai_api / _call_claude_api: the completion
\* text, or None ("none") when the call fails or times out.
CallApi(b) ==
    CASE b = "text" -> "text"
      [] b = "empty" -> ""
      [] OTHER -> "none"

\* Python truthiness of ai_response
Truthy(ai_response) == ai_response \notin {"", "none"}

\* def create_report_structure(self, ai_response, intern_data)
CreateReportStructureParams == {"ai_response", "intern_data"}

\* The keyword arguments the three generate_report methods pass to it.
CreateReportStructureKeywords == {"intern_data", "report_type", "ai_content", "provider"}

\* Python binds a call when every keyword names a parameter and every
\* parameter without a default receives a value; otherwise TypeError.
CallBinds(params, keywords) == keywords \subseteq params /\ params \subseteq keywords

\* Every method defined on BaseAIProvider or on one of the three concrete
\* classes: the attributes a call self.<name>(...) can resolve to.
ProviderMethods ==
    {"__init__", "generate_report", "test_connection", "get_available_models",
     "format_intern_data_for_ai", "create_report_structure", "handle_api_error",
     "_extract_summary", "_extract_individual_analysis", "_extract_challenges",
     "_extract_recommendations", "_calculate_performance_scores",
     "_call_ollama_api", "_call_openai_api", "_call_claude_api",
     "_parse_ollama_response", "_parse_openai_response", "_parse_claude_response",
     "_extract_list_items", "_extract_structured_items", "_extract_claude_items",
     "_create_user_prompt", "_get_weekly_report_prompt", "_get_monthly_report_prompt",
     "_get_project_summary_prompt", "_get_weekly_system_prompt",
     "_get_monthly_system_prompt", "_get_project_system_prompt",
     "set_model", "get_model_info", "estimate_cost"}

\* The default score of the except branch of each parser.
DefaultScore(c) ==
    CASE c = "ollama" -> 75
      [] c = "gpt4" -> 80
      [] OTHER -> 82

\* _parse_*_response: the parse ends with self.calculate_performance_score,
\* and an AttributeError there is caught and replaced by the basic structure.
ParseResponse(c) ==
    IF "calculate_performance_score" \in ProviderMethods
      THEN [structure |-> "parsed", score |-> 0]
      ELSE [structure |-> "basic", score |-> DefaultScore(c)]

\* The failure values generate_report returns.
ProvNotAvailable(c) ==
    [NoResult EXCEPT !.returned = TRUE, !.success = "false",
                     !.error = <<"not_available", c>>, !.provider = c]
ProvBackendFailed(c) ==
    [NoResult EXCEPT !.returned = TRUE, !.success = "false",
                     !.error = <<"failed_to_generate", c>>, !.provider = c]
ProvError(c, e) ==
    [NoResult EXCEPT !.returned = TRUE, !.success = "false",
                     !.error = <<"error", c, e>>, !.provider = c]

\* The report create_report_structure would return.
ProvReport(c, content) ==
    [NoResult EXCEPT !.returned = TRUE, !.provider = c, !.score = content.score]

ProvIdle(c, client, le) ==
    [cls |-> c, client |-> client, last_error |-> le, pc |-> "idle",
     report_type |-> Absent, probe |-> Absent, backend |-> Absent,
     content |-> [structure |-> Absent, score |-> -1], ret |-> NoResult]

\* provider.test_connection() is called directly, as AIManager does
ProvTestConnection(t) ==
    /\ prov.pc = "idle"
    /\ t \in ProbeTransports(prov.cls)
    /\ prov' = [ProvIdle(prov.cls, prov.client,
                         LastErrorAfterTest(prov.cls, prov.client, t, prov.last_error))
                  EXCEPT !.probe = TestConnectionReturn(prov.cls, prov.client, t)]
    /\ UNCHANGED mgrVars

\* provider.generate_report(intern_data, report_type) is called
ProvCall(rt) ==
    /\ prov.pc = "idle"
    /\ prov' = [ProvIdle(prov.cls, prov.client, prov.last_error) EXCEPT
                  !.pc = "probe", !.report_type = rt]
    /\ UNCHANGED mgrVars

\* if not self.test_connection(): return {'success': False, ...}
ProvProbe(t) ==
    /\ prov.pc = "probe"
    /\ t \in ProbeTransports(prov.cls)
    /\ prov' = [prov EXCEPT
         !.probe = TestConnectionReturn(prov.cls, prov.client, t),
         !.last_error = LastErrorAfterTest(prov.cls, prov.client, t, prov.last_error),
         !.pc = IF TestConnectionReturn(prov.cls, prov.client, t) = "true"
                  THEN "backend" ELSE "done",
         !.ret = CASE TestConnectionReturn(prov.cls, prov.client, t) = "true" -> NoResult
                   [] TestConnectionReturn(prov.cls, prov.client, t) = "false" ->
                        ProvNotAvailable(prov.cls)
                   [] OTHER -> ProvError(prov.cls, ProbeException(prov.cls, t)),
         !.report_type = IF prov.report_type \in PromptKeys
                           THEN prov.report_type ELSE "weekly"]
    /\ UNCHANGED mgrVars

\* ai_response = self._call_*_api(...); if ai_response: ... else: failure
ProvBackend(b) ==
    /\ prov.pc = "backend"
    /\ prov' = [prov EXCEPT
         !.backend = b,
         !.pc = IF Truthy(CallApi(b)) THEN "structure" ELSE "done",
         !.content = IF Truthy(CallApi(b)) THEN ParseResponse(prov.cls) ELSE @,
         !.ret = IF Truthy(CallApi(b)) THEN NoResult ELSE ProvBackendFailed(prov.cls)]
    /\ UNCHANGED mgrVars

\* report = self.create_report_structure(intern_data=..., report_type=...,
\*                                       ai_content=..., provider=...)
\* inside try: ... except Exception as e: return {'success': False, ...}
ProvStructure ==
    /\ prov.pc = "structure"
    /\ prov' = [prov EXCEPT
         !.pc = "done",
         !.ret = IF CallBinds(CreateReportStructureParams, CreateReportStructureKeywords)
                   THEN ProvReport(prov.cls, prov.content)
                   ELSE ProvError(prov.cls, "TypeError")]
    /\ UNCHANGED mgrVars

\* the value is handed to the caller
ProvReturn ==
    /\ prov.pc = "done"
    /\ prov' = ProvIdle(prov.cls, prov.client, prov.last_error)
    /\ UNCHANGED mgrVars

----------------------------------------------------------------------------
(* The formatter and the response parsers                                   *)

\* The largest number of logbook entries of one intern in a dataset.
MaxEntries == 9

\* entries[-7:]
EntriesInPrompt == 7

\* The logbook entries of one intern as _get_intern_data's
\* 'ORDER BY date DESC' leaves them: most recent first.  Dates are day
\* numbers; rating 0 stands for a rating that was not given; w is the number
\* of words in each free-text field.
LogbookEntries(n, rating, w) ==
    [i \in 1..n |-> [date |-> n - i + 1, mood_rating |-> rating,
                     productivity_self_rating |-> rating, words |-> w]]

\* intern_data: with or without 'project_info', with 'interns_data' holding
\* zero to two interns, or without 'interns_data' (the dict the route
\* builds); not wellformed when a record lacks a key the formatter indexes.
Datasets ==
    {[wellformed |-> wf, project_info |-> pi, has_interns_data |-> hi,
      interns_data |-> [k \in 1..Len(ns) |->
                          [logbook_entries |-> LogbookEntries(ns[k], r, w)]]] :
       wf \in BOOLEAN, pi \in BOOLEAN, hi \in BOOLEAN, r \in {0, 4}, w \in {0, 5},
       ns \in {<< >>} \cup {<<n>> : n \in 0..MaxEntries}
               \cup {<<n, 8>> : n \in {1, 8}}}

\* Logbook entries, most recent first, from a list of <<mood_rating,
\* productivity_self_rating>> pairs, 0 for a rating that was not given.
RatedEntries(ratings) ==
    [i \in 1..Len(ratings) |->
       [date |-> Len(ratings) - i + 1, mood_rating |-> ratings[i][1],
        productivity_self_rating |-> ratings[i][2], words |-> 0]]

\* Datasets with zero to two interns whose entries differ in number and in
\* the ratings they carry, and the dict without 'interns_data'.
ScoreDatasets ==
    LET subjects ==
          {<< >>,
           <<<<3, 4>>, <<0, 0>>, <<5, 5>>, <<2, 3>>>>,
           <<<<0, 0>>, <<0, 0>>>>,
           <<<<4, 0>>>>,
           <<<<2, 5>>, <<2, 5>>, <<2, 4>>>>,
           [i \in 1..EntriesInPrompt |-> <<5, 5>>],
           [i \in 1..(EntriesInPrompt + 1) |-> IF i = 1 THEN <<0, 0>> ELSE <<1, 1>>]}
    IN  {[wellformed |-> TRUE, project_info |-> FALSE, has_interns_data |-> hi,
          interns_data |-> [k \in 1..Len(rs) |-> [logbook_entries |-> RatedEntries(rs[k])]]] :
           hi \in BOOLEAN,
           rs \in {<< >>} \cup {<<a>> : a \in subjects}
                   \cup {<<a, b>> : a \in subjects, b \in subjects}}

\* One element of prompt_parts: its label, the number it prints (0 when it
\* prints none) and how many whitespace-separated words it has.
Line(label, value, words) == [label |-> label, value |-> value, words |-> words]

\* The last n elements of s: s[-n:]
LastN(s, n) == IF Len(s) <= n THEN s ELSE SubSeq(s, Len(s) - n + 1, Len(s))

RECURSIVE Concat(_)
\* The concatenation of a sequence of sequences.
Concat(ss) == IF ss = << >> THEN << >> ELSE Head(ss) \o Concat(Tail(ss))

\* The lines format_intern_data_for_ai appends for one logbook entry.
EntryLines(e) ==
    <<Line("Date", e.date, 2), Line("Status", 0, 2),
      Line("Task Stack", 0, 2 + e.words), Line("Work Done", 0, 2 + e.words),
      Line("Challenges", 0, 1 + e.words), Line("Tomorrow Plan", 0, 2 + e.words)>>
    \o (IF e.mood_rating # 0 THEN <<Line("Mood", e.mood_rating, 2)>> ELSE << >>)
    \o (IF e.productivity_self_rating # 0
          THEN <<Line("Self-Productivity Rating", e.productivity_self_rating, 3)>>
          ELSE << >>)
    \o <<Line("", 0, 0)>>

\* BaseAIProvider.format_intern_data_for_ai(intern_data): prompt_parts, the
\* lines that are joined with newlines.
FormatInternDataForAi(intern_data) ==
    (IF intern_data.project_info
       THEN <<Line("PROJECT", 0, 3), Line("DESCRIPTION", 0, 4), Line("=", 0, 1)>>
       ELSE << >>)
    \o (IF intern_data.has_interns_data
          THEN Concat([k \in 1..Len(intern_data.interns_data) |->
                 LET shown == LastN(intern_data.interns_data[k].logbook_entries,
                                    EntriesInPrompt)
                 IN  <<Line("INTERN", 0, 4), Line("-", 0, 1)>>
                     \o Concat([i \in 1..Len(shown) |-> EntryLines(shown[i])])])
          ELSE << >>)

\* A line of a model's response: its text, the text left when a leading
\* bullet is removed, the lengths of both, the keywords and markers of the
\* parsers that occur in its lower-cased text, and the length of what follows
\* its first colon (-1 without a colon).  No line here starts with '#' or
\* holds '. ', so the numbered-list and markdown rules leave it alone.
ResponseLine(text, cleaned, raw, len, kw, tail) ==
    [text |-> text, cleaned |-> cleaned, raw |-> raw, len |-> len, kw |-> kw,
     tail |-> tail]

HeaderLines ==
    {ResponseLine("STRENGTHS", "STRENGTHS", 9, 9, {"strength"}, -1),
     ResponseLine("RECOMMENDATIONS", "RECOMMENDATIONS", 15, 15, {"recommend"}, -1),
     ResponseLine("Weaknesses:", "Weaknesses:", 11, 11, {"weakness", "weaknesses:"}, 0),
     ResponseLine("Summary", "Summary", 7, 7, {"summary"}, -1)}

BulletLines ==
    {ResponseLine("- Delivered the API on time", "Delivered the API on time", 27, 25, {}, -1),
     ResponseLine("- Clear documentation", "Clear documentation", 21, 19, {}, -1),
     ResponseLine("- Add more tests", "Add more tests", 16, 14, {}, -1)}

PlainLines ==
    {ResponseLine("All fine.", "All fine.", 9, 9, {}, -1),
     ResponseLine("The interns kept a steady pace and met every deadline this week",
                  "The interns kept a steady pace and met every deadline this week",
                  63, 63, {}, -1)}

\* A response that is one JSON object with its own 'summary' and
\* 'performance_score': 95; the marker "{}" says that the stripped text
\* starts with '{' and ends with '}'.
JsonDocument ==
    <<<<ResponseLine("{\"summary\": \"Strong week\", \"performance_score\": 95}",
                     "{\"summary\": \"Strong week\", \"performance_score\": 95}",
                     51, 51, {"{}", "summary"}, 20)>>>>

\* response.split('\n\n'): a response is a sequence of one or two sections,
\* each a header or plain line followed by up to two bullet lines, or bullet
\* lines alone.
ResponseSections ==
    LET bullets == {<<b>> : b \in BulletLines} \cup
                   {<<a, b>> : a \in BulletLines, b \in BulletLines}
    IN  {<<h>> \o bs : h \in HeaderLines \cup PlainLines, bs \in bullets \cup {<< >>}}
        \cup bullets

Responses ==
    {<<a>> : a \in ResponseSections} \cup
    {<<a, b>> : a \in {x \in ResponseSections : Len(x) = 3},
               b \in {x \in ResponseSections : Len(x) <= 2}}

\* The keyword list of each branch of the three parsers' section test.
SectionKeywords(c, kind) ==
    CASE kind = "summary" ->
           {"summary", "overview"} \cup
           (CASE c = "ollama" -> {"general"} [] c = "gpt4" -> {"introduction"}
              [] OTHER -> {"executive"})
      [] kind = "strengths" ->
           {"strength", "positive"} \cup
           (CASE c = "ollama" -> {"good"} [] c = "gpt4" -> {"achievement", "good"}
              [] OTHER -> {"excellent", "good performance"})
      [] kind = "weaknesses" ->
           {"weakness", "improvement", "challenge"} \cup
           (CASE c = "ollama" -> {} [] c = "gpt4" -> {"area"}
              [] OTHER -> {"development area"})
      [] OTHER ->
           {"recommend", "suggest"} \cup
           (CASE c = "ollama" -> {"advice"} [] c = "gpt4" -> {"next step", "action"}
              [] OTHER -> {"next step", "action item", "going forward"})

\* The branch of the if/elif chain a section takes.
SectionKind(c, section) ==
    LET kw == UNION {section[i].kw : i \in 1..Len(section)}
        Has(kind) == kw \cap SectionKeywords(c, kind) # {}
    IN  CASE Has("summary") -> "summary"
          [] Has("strengths") -> "strengths"
          [] Has("weaknesses") -> "weaknesses"
          [] Has("recommendations") -> "recommendations"
          [] OTHER -> "else"

\* _extract_list_items / _extract_structured_items / _extract_claude_items:
\* the cleaned lines that are long enough (more than 10, 15, 20 characters),
\* hold nothing of the skip list and, for OpenAI and Claude, are no header
\* line with a short text after its colon.
ExtractItems(c, section) ==
    LET skip == IF c = "ollama"
                  THEN {"summary", "strengths:", "weaknesses:", "recommendations:"}
                  ELSE {"summary:", "strengths:", "weaknesses:", "recommendations:"}
        headers == IF c = "gpt4" THEN {"strength", "weakness", "recommend", "summary"}
                   ELSE {"strength", "weakness", "recommend"}
        short == IF c = "gpt4" THEN 10 ELSE 15
        least == CASE c = "ollama" -> 10 [] c = "gpt4" -> 15 [] OTHER -> 20
        Keep(l) == /\ c # "ollama" =>
                        ~(l.kw \cap headers # {} /\ l.tail >= 0 /\ l.tail < short)
                   /\ l.len > least
                   /\ l.kw \cap skip = {}
        kept == SelectSeq(section, Keep)
    IN  [i \in 1..Len(kept) |-> kept[i].cleaned]

\* The texts of all lines of a sequence of sections.
TextOf(sections) ==
    Concat([k \in 1..Len(sections) |->
              [i \in 1..Len(sections[k]) |-> sections[k][i].text]])

\* content['summary'] when a section takes the summary branch.
SummaryOf(c, section) ==
    LET marks == IF c = "claude" THEN {"summary", "overview", "executive"}
                 ELSE {"summary", "overview"}
        lines == SelectSeq(section, LAMBDA l : l.kw \cap marks = {})
    IN  CASE c = "ollama" -> TextOf(<<section>>)
          [] c = "claude" /\ lines = << >> ->
               IF Len(section) > 1 THEN TextOf(<<Tail(section)>>) ELSE TextOf(<<section>>)
          [] OTHER -> TextOf(<<lines>>)

\* len(section): the lines and the newlines between them
SectionLen(section) ==
    LET chars[i \in 0..Len(section)] ==
          IF i = 0 THEN 0 ELSE chars[i - 1] + section[i].raw
    IN  chars[Len(section)] + Len(section) - 1

\* content before the loop
EmptyContent ==
    [summary |-> << >>, strengths |-> << >>, weaknesses |-> << >>,
     recommendations |-> << >>, performance_score |-> 0, raised |-> FALSE]

RECURSIVE ParseSections(_, _, _, _)
\* The loop 'for section in sections' of _parse_*_response.
ParseSections(c, sections, current_section, content) ==
    IF sections = << >> THEN content
    ELSE
      LET section == Head(sections)
          kind == SectionKind(c, section)
          next ==
            CASE kind = "summary" -> [content EXCEPT !.summary = SummaryOf(c, section)]
              [] kind = "strengths" ->
                   [content EXCEPT !.strengths = @ \o ExtractItems(c, section)]
              [] kind = "weaknesses" ->
                   [content EXCEPT !.weaknesses = @ \o ExtractItems(c, section)]
              [] kind = "recommendations" ->
                   [content EXCEPT !.recommendations = @ \o ExtractItems(c, section)]
              [] current_section = "summary" /\ (c = "ollama" \/ content.summary # << >>) ->
                   [content EXCEPT !.summary = @ \o TextOf(<<section>>)]
              [] content.summary = << >> /\ (c # "claude" \/ SectionLen(section) > 50) ->
                   [content EXCEPT !.summary = TextOf(<<section>>)]
              [] OTHER -> content
      IN  ParseSections(c, Tail(sections),
                        IF kind = "else" THEN current_section ELSE kind, next)

\* The dict of the except branch of each parser.
BasicStructure(c, response) ==
    [summary |-> TextOf(response),
     strengths |-> CASE c = "ollama" -> <<"Analysis completed successfully">>
                     [] c = "gpt4" -> <<"Comprehensive analysis provided">>
                     [] OTHER -> <<"Detailed analysis completed successfully">>,
     weaknesses |-> CASE c = "ollama" -> <<"Further analysis may be needed">>
                      [] c = "gpt4" -> <<"Additional data may enhance analysis">>
                      [] OTHER -> <<"Some areas may benefit from additional data">>,
     recommendations |-> CASE c = "ollama" -> <<"Continue current progress">>
                           [] c = "gpt4" -> <<"Continue monitoring progress closely">>
                           [] OTHER -> <<"Continue current development trajectory">>,
     performance_score |-> DefaultScore(c), raised |-> FALSE]

\* _parse_ollama_response / _parse_openai_response / _parse_claude_response:
\* the loop, then content['performance_score'] =
\* self.calculate_performance_score(content) inside the try block, then the
\* summary of last resort.  The responses here are shorter than the 500
\* characters at which the summary is cut.
\* The OpenAI and Claude parsers first try json.loads on a response in
\* braces and content.update(parsed_json); the same call of
\* self.calculate_performance_score follows.
ParseResponseText(c, response) ==
    LET json == c # "ollama" /\ "{}" \in response[1][1].kw
        content == IF json
                     THEN [EmptyContent EXCEPT !.summary = <<"Strong week">>,
                                              !.performance_score = 95]
                     ELSE ParseSections(c, response, "none", EmptyContent)
    IN  IF "calculate_performance_score" \in ProviderMethods
          THEN [content EXCEPT !.summary = IF @ = << >> THEN TextOf(response) ELSE @]
          ELSE BasicStructure(c, response)

\* No call has been made.
FnIdle ==
    [op |-> "none", cls |-> Absent, intern_data |-> Absent, out |-> << >>,
     response |-> << >>, content |-> EmptyContent,
     scores |-> [fault |-> FALSE, overall_productivity |-> 0, consistency |-> 0,
                 engagement |-> 0, technical_progress |-> 0],
     analysis |-> << >>,
     prev |-> [valid |-> FALSE, intern_data |-> Absent, score |-> -1]]

\* provider._parse_*_response(response, report_type) is called on an
\* instance of class c
FnParse(c, response) ==
    /\ fn.op = "none"
    /\ fn' = [fn EXCEPT !.op = "parse", !.cls = c, !.response = response,
                        !.content = ParseResponseText(c, response)]
    /\ UNCHANGED <<providers, default_provider, last_error, inst, prov, ops, genVars>>

\* provider.format_intern_data_for_ai(intern_data) is called with a dataset
\* that has every key the formatter indexes
FnFormat(intern_data) ==
    /\ fn.op = "none"
    /\ intern_data.wellformed
    /\ fn' = [fn EXCEPT !.op = "format", !.intern_data = intern_data,
                        !.out = FormatInternDataForAi(intern_data)]
    /\ UNCHANGED <<providers, default_provider, last_error, inst, prov, ops, genVars>>

\* generate_report(intern_data, report_type) of an instance of class c has
\* received response from its backend and parses it:
\* report_content = self._parse_*_response(ai_response, report_type)
FnNormalize(c, intern_data, response) ==
    /\ fn.op = "none"
    /\ fn' = [fn EXCEPT !.op = "normalize", !.cls = c, !.intern_data = intern_data,
                        !.response = response,
                        !.content = ParseResponseText(c, response)]
    /\ UNCHANGED <<providers, default_provider, last_error, inst, prov, ops, genVars>>

\* The caller takes the value; prev keeps the dataset and the score of the
\* last response parsed within generate_report.
FnReturn ==
    /\ fn.op # "none"
    /\ fn' = [FnIdle EXCEPT !.prev =
                 IF fn.op = "normalize"
                   THEN [valid |-> TRUE, intern_data |-> fn.intern_data,
                         score |-> fn.content.performance_score]
                   ELSE fn.prev]
    /\ UNCHANGED <<providers, default_provider, last_error, inst, prov, ops, genVars>>

----------------------------------------------------------------------------
(* The registered instances of the three concrete classes                   *)

\* The model lists GET /api/tags may report as installed.
InstalledModels == {<<"gemma3:1b">>, <<"llama3", "gemma3:1b">>}

\* self.available_models as the OpenAI and Claude constructors set it.
StaticModels(c) ==
    IF c = "gpt4"
      THEN <<"gpt-4", "gpt-4-turbo", "gpt-4-turbo-preview", "gpt-3.5-turbo">>
      ELSE <<"claude-3-opus-20240229", "claude-3-sonnet-20240229",
             "claude-3-haiku-20240307">>

\* self.model_name / self.model as the constructors set it.
DefaultModel(c) ==
    CASE c = "ollama" -> "gemma3:1b"
      [] c = "gpt4" -> "gpt-4"
      [] OTHER -> "claude-3-sonnet-20240229"

\* An instance right after its constructor.
FreshInstance(c, client) ==
    [client |-> client,
     available_models |-> IF c = "ollama" THEN << >> ELSE StaticModels(c),
     model_name |-> DefaultModel(c)]

\* The transports of a registered instance's probe, and "raise" for an
\* implementation of BaseAIProvider whose test_connection raises.
SweepTransports(p) == ProbeTransports(p) \cup {"raise"}

\* What provider.test_connection() gives the manager.
ProbeReturn(p, t) ==
    IF t = "raise" THEN "raise" ELSE TestConnectionReturn(p, inst[p].client, t)

\* The instance after test_connection: OllamaProvider stores the reported
\* list whenever the answer is a 200 whose body parses, and then takes the
\* first reported model as its model; the other two classes store nothing.
InstAfterTest(p, t, ms) ==
    CASE p = "ollama" /\ t = "models" ->
           [inst[p] EXCEPT !.available_models = ms, !.model_name = Head(ms)]
      [] p = "ollama" /\ t = "no_models" ->
           [inst[p] EXCEPT !.available_models = << >>]
      [] OTHER -> inst[p]

\* provider.test_connection() runs on the registered instance p.
RunProbe(p, t, ms) ==
    /\ last_error' = [last_error EXCEPT ![p] =
         IF t = "raise" THEN @ ELSE LastErrorAfterTest(p, inst[p].client, t, @)]
    /\ inst' = [inst EXCEPT ![p] = InstAfterTest(p, t, ms)]

\* OllamaProvider.get_available_models: 'if not self.available_models:
\* self.test_connection()'.  The other two classes return a copy of their
\* list and never probe.
NeedsRefresh(p) == p = "ollama" /\ inst[p].available_models = << >>

\* The list provider.get_available_models() returns.
GetAvailableModelsReturn(p, t, ms) ==
    IF NeedsRefresh(p)
      THEN InstAfterTest(p, t, ms).available_models
      ELSE inst[p].available_models

\* provider.get_available_models() runs on the registered instance p.
RunGetAvailableModels(p, t, ms) ==
    IF NeedsRefresh(p)
      THEN RunProbe(p, t, ms)
      ELSE UNCHANGED <<last_error, inst>>

----------------------------------------------------------------------------
(* AIManager.get_available_providers, get_provider_health and               *)
(* get_recommended_provider, one step per provider method invoked           *)

SweepOps == {"get_available_providers", "get_provider_health",
             "get_recommended_provider"}

\* The priority argument: the three words the code knows, its default, and
\* one it does not know.
Priorities == {"cost", "quality", "speed", "balanced", "cheapest"}

\* Variant of ProviderInfo: 'last_error' is None in every descriptor.
ProviderInfoWithoutError(name, is_available, models, le) ==
    [name |-> name, available |-> is_available, models |-> models,
     last_error |-> NoError, error |-> Absent]

\* The dict get_available_providers appends in its try branch.
ProviderInfo(name, is_available, models, le) ==
    [name |-> name, available |-> is_available, models |-> models,
     last_error |-> IF ~is_available THEN le ELSE NoError, error |-> Absent]

\* The dict it appends in its except branch.
ProviderInfoError(name, e) ==
    [name |-> name, available |-> FALSE, models |-> NoKeys,
     last_error |-> Absent, error |-> e]

\* health_status['providers'][name] in the try branch
HealthStatus(name, is_healthy, models, le) ==
    [name |-> name, healthy |-> is_healthy, models |-> models,
     last_error |-> IF ~is_healthy THEN le ELSE NoError, error |-> Absent]

\* health_status['providers'][name] in the except branch
HealthStatusError(name, e) ==
    [name |-> name, healthy |-> FALSE, models |-> NoKeys,
     last_error |-> Absent, error |-> e]

\* for provider in order: if provider in available_providers: return provider
FirstAvailable(order, available) ==
    LET hits == SelectSeq(order, LAMBDA n : \E i \in 1..Len(available) : available[i] = n)
    IN  IF hits = << >> THEN Absent ELSE Head(hits)

\* Variant of Recommended: 'cost' answers ollama without looking at the probes.
RecommendedOllamaForCost(available, priority) ==
    CASE priority = "cost" -> "ollama"
      [] available = << >> -> default_provider
      [] OTHER -> Head(available)

\* get_recommended_provider after the probes: available is the list of names
\* whose probe passed, in registry order.
Recommended(available, priority) ==
    CASE available = << >> -> default_provider
      [] priority = "cost" /\ FirstAvailable(<<"ollama">>, available) # Absent -> "ollama"
      [] priority = "quality"
           /\ FirstAvailable(<<"gpt4", "claude", "ollama">>, available) # Absent ->
           FirstAvailable(<<"gpt4", "claude", "ollama">>, available)
      [] priority = "speed"
           /\ FirstAvailable(<<"ollama", "gpt4", "claude">>, available) # Absent ->
           FirstAvailable(<<"ollama", "gpt4", "claude">>, available)
      [] OTHER -> Head(available)

\* Variant of CostPer1kTokens: one price for every provider.
CostPer1kTokensFlat(name) == 30

\* cost_per_1k_tokens.get(provider_name, 0.0), in thousandths of a dollar:
\* 0.0, 0.03 and 0.008
CostPer1kTokens(name) ==
    CASE name = "ollama" -> 0
      [] name = "gpt4" -> 30
      [] name = "claude" -> 8
      [] OTHER -> 0

\* estimated_output_tokens = 500
EstimatedOutputTokens == 500

RECURSIVE WordCount(_)
\* len(formatted_data.split())
WordCount(lines) ==
    CASE Len(lines) = 0 -> 0
      [] Len(lines) = 1 -> lines[1].words
      [] OTHER -> WordCount(SubSeq(lines, 1, Len(lines) \div 2))
                  + WordCount(SubSeq(lines, Len(lines) \div 2 + 1, Len(lines)))

\* n / d rounded to the nearest integer, halves to the even one (round())
RoundHalfEven(n, d) ==
    LET q == n \div d
        r == n % d
    IN  CASE 2 * r < d -> q
          [] 2 * r > d -> q + 1
          [] OTHER -> IF q % 2 = 0 THEN q ELSE q + 1

\* No estimate dict.
NoEstimate ==
    [error |-> Absent, provider |-> Absent, estimated_input_tokens |-> -1,
     estimated_output_tokens |-> -1, total_tokens |-> -1,
     estimated_cost_usd |-> -1, is_free |-> Absent]

\* Variant of EstimateReportCost: no registry lookup before the estimate.
EstimateReportCostNoLookup(name, intern_data) ==
    [NoEstimate EXCEPT !.provider = name,
       !.estimated_cost_usd = 0, !.is_free = "true"]

\* AIManager.estimate_report_cost(provider_name, intern_data).  Token counts
\* are kept in tenths of a token (1.3 tokens per word), the cost in units of
\* 10^-7 dollars and estimated_cost_usd, rounded to 4 places, in units of
\* 10^-4 dollars.
EstimateReportCost(name, intern_data) ==
    CASE name \notin providers -> [NoEstimate EXCEPT !.error = "not_found"]
      [] ~intern_data.wellformed -> [NoEstimate EXCEPT !.error = "estimation_failed"]
      [] OTHER ->
           LET input == 13 * WordCount(FormatInternDataForAi(intern_data))
               total == input + 10 * EstimatedOutputTokens
               cost  == total * CostPer1kTokens(name)
           IN  [error |-> Absent, provider |-> name,
                estimated_input_tokens |-> input \div 10,
                estimated_output_tokens |-> EstimatedOutputTokens,
                total_tokens |-> total \div 10,
                estimated_cost_usd |-> RoundHalfEven(cost, 1000),
                is_free |-> IF cost = 0 THEN "true" ELSE "false"]

\* No operation is running.
OpsIdle ==
    [op |-> "none", arg |-> Absent, idx |-> 0, phase |-> "idle",
     is_available |-> FALSE, out |-> << >>, available_providers |-> << >>,
     probed |-> << >>, returns |-> << >>, interfered |-> FALSE,
     ret |-> Absent, raised |-> FALSE, wellformed |-> TRUE, est |-> NoEstimate]

\* Variant of NextProvider: the loop ends at the first except branch.
NextProviderAbortOnError(o) ==
    IF o.idx < Len(Keys) /\ (o.out = << >> \/ o.out[Len(o.out)].error = Absent)
      THEN [o EXCEPT !.idx = @ + 1, !.phase = "probe", !.is_available = FALSE]
      ELSE [o EXCEPT !.idx = 0, !.phase = "done", !.is_available = FALSE,
                     !.ret = IF o.op = "get_recommended_provider"
                               THEN Recommended(o.available_providers, o.arg)
                               ELSE Absent]

\* The loop moves on to the next registered provider or, after the last,
\* to the return statement.
NextProvider(o) ==
    IF o.idx < Len(Keys)
      THEN [o EXCEPT !.idx = @ + 1, !.phase = "probe", !.is_available = FALSE]
      ELSE [o EXCEPT !.idx = 0, !.phase = "done", !.is_available = FALSE,
                     !.ret = IF o.op = "get_recommended_provider"
                               THEN Recommended(o.available_providers, o.arg)
                               ELSE Absent]

\* One of the three operations is called.
OpsCall(op, priority) ==
    /\ ops.op = "none"
    /\ op \in SweepOps
    /\ op # "get_recommended_provider" => priority = "balanced"
    /\ ops' = NextProvider([OpsIdle EXCEPT !.op = op,
                  !.arg = IF op = "get_recommended_provider" THEN priority ELSE Absent])
    /\ UNCHANGED <<providers, default_provider, last_error, inst, prov, fn, genVars>>

\* is_available = provider.test_connection() for the provider the loop is at
SweepProbe(t, ms) ==
    /\ ops.phase = "probe"
    /\ LET p == Keys[ops.idx]
            r == ProbeReturn(p, t)
            o == [ops EXCEPT !.probed = Append(@, p), !.returns = Append(@, r)]
       IN  /\ t \in SweepTransports(p)
           /\ RunProbe(p, t, ms)
           /\ ops' =
                CASE ops.op = "get_recommended_provider" /\ r = "raise" ->
                       [o EXCEPT !.phase = "done", !.idx = 0, !.raised = TRUE]
                  [] ops.op = "get_recommended_provider" ->
                       NextProvider([o EXCEPT !.available_providers =
                                       IF r = "true" THEN Append(@, p) ELSE @])
                  [] ops.op = "get_available_providers" /\ r = "raise" ->
                       NextProvider([o EXCEPT !.out =
                                       Append(@, ProviderInfoError(p, "exception"))])
                  [] ops.op = "get_provider_health" /\ r = "raise" ->
                       NextProvider([o EXCEPT !.out =
                                       Append(@, HealthStatusError(p, "exception"))])
                  [] OTHER ->
                       [o EXCEPT !.phase = "read", !.is_available = (r = "true")]
    /\ UNCHANGED <<providers, default_provider, prov, fn, genVars>>

\* provider.get_available_models() if is_available else [], and
\* provider.last_error if not is_available else None; the dict is stored
SweepRead(t, ms) ==
    /\ ops.phase = "read"
    /\ LET p == Keys[ops.idx]
            models == IF ops.is_available THEN GetAvailableModelsReturn(p, t, ms) ELSE << >>
            o == [ops EXCEPT !.probed =
                    IF ops.is_available /\ NeedsRefresh(p) THEN Append(@, p) ELSE @]
       IN  /\ t \in ProbeTransports(p)
           /\ IF ops.is_available
                THEN RunGetAvailableModels(p, t, ms)
                ELSE UNCHANGED <<last_error, inst>>
           /\ ops' = NextProvider([o EXCEPT !.out = Append(@,
                        IF ops.op = "get_available_providers"
                          THEN ProviderInfo(p, ops.is_available, models, last_error[p])
                          ELSE HealthStatus(p, ops.is_available, models, last_error[p]))])
    /\ UNCHANGED <<providers, default_provider, prov, fn, genVars>>

\* estimate_report_cost(name, intern_data) is called and returns
OpsEstimate(name, intern_data) ==
    /\ ops.op = "none"
    /\ ops' = [OpsIdle EXCEPT !.op = "estimate_report_cost", !.arg = name,
                              !.phase = "done", !.wellformed = intern_data.wellformed,
                              !.est = EstimateReportCost(name, intern_data)]
    /\ UNCHANGED <<providers, default_provider, last_error, inst, prov, fn, genVars>>

\* The operation returns; the caller takes the value.
OpsReturn ==
    /\ ops.phase = "done"
    /\ ops' = OpsIdle
    /\ UNCHANGED <<providers, default_provider, last_error, inst, prov, fn, genVars>>

\* Another caller (another request of the same process) probes provider p.
OtherProbe(p, t, ms) ==
    /\ p \in providers
    /\ t \in ProbeTransports(p)
    /\ RunProbe(p, t, ms)
    /\ ops' = IF ops.op = "none" THEN ops ELSE [ops EXCEPT !.interfered = TRUE]
    /\ UNCHANGED <<providers, default_provider, prov, fn, genVars>>

\* Variant of RegistryAfterMissing: set_default_provider constructs and
\* registers the provider it did not find.
RegistryAfterMissingRetried(name) == providers \cup {name}

\* else: logger.error(f"Provider {provider_name} not found"); return False
\* The registry after set_default_provider looked name up in it.
RegistryAfterMissing(name) == providers

\* Variant of DefaultAfter: the name is taken without lookup and probe.
DefaultAfterUnchecked(name, r) == name

\* if provider_name in self.providers:
\*     if self.providers[provider_name].test_connection():
\*         self.default_provider = provider_name
\* r is what test_connection returned.
DefaultAfter(name, r) ==
    IF name \in providers /\ r = "true" THEN name ELSE default_provider

\* AIManager.set_default_provider(name), called between other operations.
OpsSetDefault(name, t, ms) ==
    /\ ops.op = "none"
    /\ LET r == IF name \in providers THEN ProbeReturn(name, t) ELSE "none"
       IN  /\ IF name \in providers
                THEN t \in SweepTransports(name) /\ RunProbe(name, t, ms)
                ELSE t = "ok" /\ UNCHANGED <<last_error, inst>>
           /\ default_provider' = IF r = "raise" THEN default_provider
                                   ELSE DefaultAfter(name, r)
           /\ ops' = [OpsIdle EXCEPT
                        !.op = "set_default_provider", !.arg = name, !.phase = "done",
                        !.probed = IF name \in providers THEN <<name>> ELSE << >>,
                        !.returns = IF name \in providers THEN <<r>> ELSE << >>,
                        !.raised = (r = "raise"),
                        !.ret = CASE r = "raise" -> Absent
                                  [] r = "true" -> "true"
                                  [] OTHER -> "false"]
    /\ providers' = (IF name \in providers THEN providers ELSE RegistryAfterMissing(name))
    /\ UNCHANGED <<prov, fn, genVars>>

\* Model names a caller may ask OllamaProvider.set_model for.
OllamaModelNames == {"gemma3:1b", "llama3"}

\* OllamaProvider.set_model(model_name), called between manager operations:
\* if model_name in self.get_available_models(): self.model_name = model_name
OpsSetModel(model_name, t, ms) ==
    /\ ops.op = "none"
    /\ "ollama" \in providers
    /\ t \in ProbeTransports("ollama")
    /\ LET found == model_name \in
                      {GetAvailableModelsReturn("ollama", t, ms)[i] :
                         i \in 1..Len(GetAvailableModelsReturn("ollama", t, ms))}
            after == IF NeedsRefresh("ollama") THEN InstAfterTest("ollama", t, ms)
                     ELSE inst["ollama"]
       IN  /\ inst' = [inst EXCEPT !["ollama"] =
                         IF found THEN [after EXCEPT !.model_name = model_name] ELSE after]
           /\ last_error' =
                IF NeedsRefresh("ollama")
                  THEN [last_error EXCEPT !["ollama"] =
                          LastErrorAfterTest("ollama", inst["ollama"].client, t, @)]
                  ELSE last_error
           /\ ops' = [OpsIdle EXCEPT
                        !.op = "set_model", !.arg = model_name, !.phase = "done",
                        !.probed = IF NeedsRefresh("ollama") THEN <<"ollama">> ELSE << >>,
                        !.ret = IF found THEN "true" ELSE "false"]
    /\ UNCHANGED <<providers, default_provider, prov, fn, genVars>>

\* provider.get_available_models(), called between manager operations.
OpsGetModels(p, t, ms) ==
    /\ ops.op = "none"
    /\ p \in providers
    /\ t \in ProbeTransports(p)
    /\ RunGetAvailableModels(p, t, ms)
    /\ ops' = [OpsIdle EXCEPT
                 !.op = "get_available_models", !.arg = p, !.phase = "done",
                 !.probed = IF NeedsRefresh(p) THEN <<p>> ELSE << >>,
                 !.out = GetAvailableModelsReturn(p, t, ms)]
    /\ UNCHANGED <<providers, default_provider, prov, fn, genVars>>

----------------------------------------------------------------------------
(* The numbers of the report structure                                      *)

\* Numbers with one decimal are counted in tenths (42 is 4.2) and the sums
\* before rounding are exact fractions <<numerator, denominator>>.

\* [e.get(field, 3) for e in entries if e.get(field)]
PresentRatings(entries, field) ==
    LET pick[i \in 0..Len(entries)] ==
          IF i = 0 THEN << >>
          ELSE IF entries[i][field] # 0 THEN Append(pick[i - 1], entries[i][field])
               ELSE pick[i - 1]
    IN  pick[Len(entries)]

\* sum(ratings)
SumOf(ratings) ==
    LET acc[i \in 0..Len(ratings)] == IF i = 0 THEN 0 ELSE acc[i - 1] + ratings[i]
    IN  acc[Len(ratings)]

\* Variant of MeanOfPresent: the mean is taken without asking whether any
\* entry carries the rating.
MeanOfPresentUnguarded(entries, field) ==
    LET ratings == PresentRatings(entries, field)
    IN  IF Len(ratings) = 0 THEN [fault |-> TRUE, value |-> <<0, 1>>]
        ELSE [fault |-> FALSE, value |-> <<SumOf(ratings), Len(ratings)>>]

\* What one intern with entries adds to productivity_sum or engagement_sum:
\* if ratings: sum += sum(ratings) / len(ratings); fault is a division by
\* zero.
MeanOfPresent(entries, field) ==
    LET ratings == PresentRatings(entries, field)
    IN  IF ratings # << >>
          THEN [fault |-> FALSE, value |-> <<SumOf(ratings), Len(ratings)>>]
          ELSE [fault |-> FALSE, value |-> <<0, 1>>]

\* min(len(entries) / 7.0 * 5, 5)
ConsistencyOf(entries) ==
    IF 5 * Len(entries) < 5 * 7 THEN <<5 * Len(entries), 7>> ELSE <<5, 1>>

\* round(sum / total, 1) in tenths
RoundTenths(sum, total) == RoundHalfEven(10 * sum[1], sum[2] * total)

\* _calculate_performance_scores(intern_data)
CalculatePerformanceScores(intern_data) ==
    LET interns == intern_data.interns_data
        total_interns == Len(interns)
        Plus(a, b) == <<a[1] * b[2] + b[1] * a[2], a[2] * b[2]>>
        sums[k \in 0..total_interns] ==
          IF k = 0
            THEN [fault |-> FALSE, productivity |-> <<0, 1>>, consistency |-> <<0, 1>>,
                  engagement |-> <<0, 1>>]
          ELSE LET entries == interns[k].logbook_entries
                   p == MeanOfPresent(entries, "productivity_self_rating")
                   m == MeanOfPresent(entries, "mood_rating")
                   before == sums[k - 1]
               IN  IF entries = << >> THEN before
                   ELSE [fault |-> before.fault \/ p.fault \/ m.fault,
                         productivity |-> Plus(before.productivity, p.value),
                         consistency |-> Plus(before.consistency, ConsistencyOf(entries)),
                         engagement |-> Plus(before.engagement, m.value)]
        sum == sums[total_interns]
        overall_productivity == RoundTenths(sum.productivity, total_interns)
        consistency == RoundTenths(sum.consistency, total_interns)
    IN  IF intern_data.has_interns_data /\ total_interns > 0
          THEN [fault |-> sum.fault,
                overall_productivity |-> overall_productivity,
                consistency |-> consistency,
                engagement |-> RoundTenths(sum.engagement, total_interns),
                technical_progress |-> RoundHalfEven(overall_productivity + consistency, 2)]
          ELSE FnIdle.scores

\* _extract_individual_analysis(ai_response, intern_data): one record per
\* intern from the last seven entries of the list;
\* sum(ratings present) / len(recent_entries) if recent_entries else 3
ExtractIndividualAnalysis(intern_data) ==
    LET interns == intern_data.interns_data
        Avg(recent_entries, field) ==
          IF recent_entries # << >>
            THEN RoundTenths(<<SumOf(PresentRatings(recent_entries, field)), 1>>,
                             Len(recent_entries))
            ELSE 30
    IN  IF intern_data.has_interns_data
          THEN [k \in 1..Len(interns) |->
                  LET recent_entries == LastN(interns[k].logbook_entries, 7)
                  IN  [avg_mood |-> Avg(recent_entries, "mood_rating"),
                       avg_productivity |-> Avg(recent_entries, "productivity_self_rating"),
                       entries_count |-> Len(recent_entries)]]
          ELSE << >>

\* A call of _calculate_performance_scores.
FnScores(intern_data) ==
    /\ fn.op = "none"
    /\ fn' = [fn EXCEPT !.op = "scores", !.intern_data = intern_data,
                        !.scores = CalculatePerformanceScores(intern_data)]
    /\ UNCHANGED <<providers, default_provider, last_error, inst, prov, ops, genVars>>

\* A call of _extract_individual_analysis.
FnAnalysis(intern_data) ==
    /\ fn.op = "none"
    /\ fn' = [fn EXCEPT !.op = "analysis", !.intern_data = intern_data,
                        !.analysis = ExtractIndividualAnalysis(intern_data)]
    /\ UNCHANGED <<providers, default_provider, last_error, inst, prov, ops, genVars>>

----------------------------------------------------------------------------
(* Specifications                                                           *)

\* The state of the module before any manager call.
MgrIdle ==
    /\ default_provider = "ollama"
    /\ fallback_order = <<"ollama", "gpt4", "claude">>
    /\ pc = "idle"
    /\ req = [name |-> Absent, use_fallback |-> FALSE]
    /\ original_error = NoMsg
    /\ fb = << >>
    /\ calls = << >>
    /\ result = NoResult
    /\ prev = [name |-> Absent, use_fallback |-> FALSE, used |-> Absent, same |-> FALSE]

\* The instances as constructed with their clients; no other operation and
\* no formatter or parser call is running.
OthersIdle ==
    /\ inst = [p \in ProviderNames |-> FreshInstance(p, TRUE)]
    /\ ops = OpsIdle
    /\ fn = FnIdle

\* AIManager.__init__: each construction may raise, leaving its name out.
\* Every registered instance starts with last_error None or, without an API
\* key, with the constructor's message.
Init ==
    /\ providers \in SUBSET ProviderNames
    /\ behaviour \in [ProviderNames -> Behaviours]
    /\ \A p \in ProviderNames \ providers : behaviour[p] = "probe_false"
    /\ last_error \in [ProviderNames -> {NoError, "error"}]
    /\ last_error["ollama"] = NoError
    /\ \A p \in ProviderNames \ providers : last_error[p] = NoError
    /\ MgrIdle
    /\ OthersIdle
    /\ prov = ProvIdle("ollama", TRUE, NoError)

Next ==
    \/ \E name \in RequestNames, use_fallback \in BOOLEAN : Call(name, use_fallback)
    \/ PrimaryProbe
    \/ PrimaryGenerate
    \/ FallbackProbe
    \/ FallbackGenerate
    \/ Return
    \/ \E p \in ProviderNames, b \in Behaviours : EnvChange(p, b)

Spec == Init /\ [][Next]_vars

\* A concrete provider after its constructor: OllamaProvider always has its
\* URL; OpenAIProvider and ClaudeProvider have a client only with an API key.
InitProv ==
    /\ providers = ProviderNames
    /\ behaviour = [p \in ProviderNames |-> "healthy"]
    /\ last_error = [p \in ProviderNames |-> NoError]
    /\ MgrIdle
    /\ OthersIdle
    /\ \E c \in ProviderClasses, client \in BOOLEAN :
         /\ c = "ollama" => client
         /\ prov = ProvIdle(c, client, IF client THEN NoError ELSE "error")

NextProv ==
    \/ \E rt \in ReportTypes : ProvCall(rt)
    \/ \E t \in AllProbeTransports : ProvTestConnection(t)
    \/ \E t \in AllProbeTransports : ProvProbe(t)
    \/ \E b \in BackendOutcomes : ProvBackend(b)
    \/ ProvStructure
    \/ ProvReturn

SpecProv == InitProv /\ [][NextProv]_vars

\* AIManager after its constructor, for the operations other than
\* generate_report: any subset of the three names is registered, and the
\* OpenAI and Claude instances have a client only with an API key.
InitOps ==
    /\ providers \in SUBSET ProviderNames
    /\ behaviour = [p \in ProviderNames |-> "healthy"]
    /\ \E g \in BOOLEAN, c \in BOOLEAN :
         inst = [p \in ProviderNames |->
                   FreshInstance(p, CASE p = "gpt4" -> g [] p = "claude" -> c [] OTHER -> TRUE)]
    /\ last_error = [p \in ProviderNames |-> IF inst[p].client THEN NoError ELSE "error"]
    /\ MgrIdle
    /\ ops = OpsIdle
    /\ fn = FnIdle
    /\ prov = ProvIdle("ollama", TRUE, NoError)

NextOps ==
    \/ \E op \in SweepOps, priority \in Priorities : OpsCall(op, priority)
    \/ \E t \in AllProbeTransports \cup {"raise"}, ms \in InstalledModels : SweepProbe(t, ms)
    \/ \E t \in AllProbeTransports, ms \in InstalledModels : SweepRead(t, ms)
    \/ \E name \in RequestNames, intern_data \in Datasets : OpsEstimate(name, intern_data)
    \/ OpsReturn
    \/ \E p \in ProviderNames, t \in AllProbeTransports, ms \in InstalledModels :
         OtherProbe(p, t, ms)
    \/ \E name \in RequestNames, t \in AllProbeTransports \cup {"raise"},
          ms \in InstalledModels : OpsSetDefault(name, t, ms)
    \/ \E model_name \in OllamaModelNames, t \in AllProbeTransports,
          ms \in InstalledModels : OpsSetModel(model_name, t, ms)
    \/ \E p \in ProviderNames, t \in AllProbeTransports, ms \in InstalledModels :
         OpsGetModels(p, t, ms)

SpecOps == InitOps /\ [][NextOps]_vars

\* The formatter and the parsers are methods without state of their own:
\* any instance serves.
InitFn ==
    /\ providers = ProviderNames
    /\ behaviour = [p \in ProviderNames |-> "healthy"]
    /\ last_error = [p \in ProviderNames |-> NoError]
    /\ MgrIdle
    /\ OthersIdle
    /\ prov = ProvIdle("ollama", TRUE, NoError)

NextFn ==
    \/ \E intern_data \in Datasets : FnFormat(intern_data)
    \/ \E c \in ProviderClasses, response \in Responses : FnParse(c, response)
    \/ \E c \in ProviderClasses,
          intern_data \in {d \in ScoreDatasets : d.has_interns_data /\ Len(d.interns_data) = 1
                                                  /\ Len(d.interns_data[1].logbook_entries) \in {3, 4}},
          response \in {JsonDocument} \cup {<<<<l>>>> : l \in PlainLines} :
         FnNormalize(c, intern_data, response)
    \/ \E intern_data \in ScoreDatasets : FnScores(intern_data)
    \/ \E intern_data \in ScoreDatasets : FnAnalysis(intern_data)
    \/ FnReturn

SpecFn == InitFn /\ [][NextFn]_vars

\* Every call of a provider returns, with a value or an exception or by its
\* timeout: a step of generate_report that can be taken is taken.
SpecLive ==
    /\ Init
    /\ [][Next]_vars
    /\ WF_vars(PrimaryProbe)
    /\ WF_vars(PrimaryGenerate)
    /\ WF_vars(FallbackProbe)
    /\ WF_vars(FallbackGenerate)

----------------------------------------------------------------------------
(* Properties of AIManager.generate_report                                  *)

\* The running call has reached its return statement.
Returned == pc = "done"

\* The running call invoked this method of provider p.
Probed(p) == \E i \in 1..Len(calls) : calls[i] = <<p, "test_connection">>
Invoked(p) == \E i \in 1..Len(calls) : calls[i] = <<p, "generate_report">>

\* The requested provider's attempt fails: it is not registered, its probe is
\* false or raises, or its generate_report returns a failure or raises.
PrimaryFails == req.name \notin providers \/ behaviour[req.name] # "healthy"

\* The message of the requested provider's failure.
PrimaryError ==
    IF req.name \notin providers THEN NotFound(req.name)
    ELSE CASE behaviour[req.name] = "probe_false" -> NotAvailable(req.name)
           [] behaviour[req.name] = "probe_raise" -> Raised(req.name, "test_connection")
           [] behaviour[req.name] = "gen_raise" -> Raised(req.name, "generate_report")
           [] behaviour[req.name] = "gen_failure" -> ProviderFailure(req.name)
           [] OTHER -> NoMsg

\* The fallback order of the documentation, less the requested name and the
\* unregistered names.
Candidates ==
    SelectSeq(<<"ollama", "gpt4", "claude">>,
              LAMBDA p : p # req.name /\ p \in providers)

CandidateSet == {Candidates[i] : i \in 1..Len(Candidates)}

\* Positions of the candidates whose probe passes and whose generate_report
\* returns a report.
Winners == {i \in 1..Len(Candidates) : behaviour[Candidates[i]] = "healthy"}

FirstWinner == CHOOSE i \in Winners : \A j \in Winners : i <= j

\* The manager went into _try_fallback_providers.
InFallback == Returned /\ original_error # NoMsg

\* C1: with use_fallback=true, when the registered requested provider's
\* attempt fails in any way the manager goes on to the fallback chain: it
\* never returns that provider's own failure while a fallback candidate is
\* still untried.
C1_FailedPrimaryGoesToFallback ==
    (/\ Returned
     /\ req.use_fallback
     /\ req.name \in providers
     /\ PrimaryFails
     /\ \E c \in CandidateSet : ~Probed(c))
    => ~(IsFailure(result) /\ result.provider = req.name)

\* C2: during fallback the candidates are the fixed order less the requested
\* and the unregistered names; the result is that of the earliest candidate
\* whose probe passes and whose generate_report succeeds; a candidate whose
\* probe fails is never asked to generate; a candidate's failure is never
\* returned as the winner; nothing after the winner is probed or invoked.
C2_EarliestHealthyCandidateWins ==
    InFallback =>
      /\ \A c \in CandidateSet : TestConnectionOf(c) # "true" => ~Invoked(c)
      /\ \A c \in ProviderNames \ (CandidateSet \cup {req.name}) :
           ~Probed(c) /\ ~Invoked(c)
      /\ ~(IsFailure(result) /\ result.provider \in CandidateSet)
      /\ Winners # {} =>
           /\ IsReport(result)
           /\ result.provider = Candidates[FirstWinner]
           /\ result.provider_used = Candidates[FirstWinner]
           /\ \A j \in 1..Len(Candidates) :
                j > FirstWinner => ~Probed(Candidates[j]) /\ ~Invoked(Candidates[j])

\* C3: with use_fallback=false, when the requested provider fails (not
\* registered, probe false, failure returned, or an exception) the call
\* returns a failure and invokes no method of any other provider.
C3_NoFallbackTouchesNoOtherProvider ==
    (Returned /\ ~req.use_fallback /\ PrimaryFails) =>
      /\ IsFailure(result)
      /\ \A i \in 1..Len(calls) : calls[i][1] = req.name
      /\ result.fallback_used # "true"

\* C3 witness: a registered provider failed without fallback while another
\* registered provider was healthy.
C3_Witness ==
    /\ Returned /\ ~req.use_fallback
    /\ req.name \in providers /\ behaviour[req.name] = "gen_raise"
    /\ \E c \in providers \ {req.name} : behaviour[c] = "healthy"
    /\ Len(calls) = 2

\* C4: when the requested provider is registered, its probe passes and its
\* generate_report succeeds, the call returns that provider's report tagged
\* provider_used = the requested name and fallback_used = false, and no other
\* provider is probed or invoked.
C4_HealthyPrimaryAnswers ==
    (Returned /\ req.name \in providers /\ behaviour[req.name] = "healthy") =>
      /\ IsReport(result)
      /\ result.provider = req.name
      /\ result.provider_used = req.name
      /\ result.fallback_used = "false"
      /\ calls = <<<<req.name, "test_connection">>, <<req.name, "generate_report">>>>

\* C4 witness: a healthy requested provider answered while other providers
\* were registered.
C4_Witness ==
    /\ Returned /\ req.name = "gpt4" /\ providers = ProviderNames
    /\ behaviour["gpt4"] = "healthy" /\ behaviour["ollama"] = "healthy"
    /\ IsReport(result)

\* C5: in every returned value original_provider and original_error are
\* present exactly when fallback_used is true, and then original_provider is
\* the requested name and original_error the requested provider's failure
\* message, not a later candidate's.
C5_FallbackMetadata ==
    Returned =>
      /\ (result.original_provider # Absent) <=> (result.fallback_used = "true")
      /\ (result.original_error # NoMsg) <=> (result.fallback_used = "true")
      /\ result.fallback_used = "true" =>
           /\ result.original_provider = req.name
           /\ result.original_error = PrimaryError

\* C5 witness: a fallback candidate answered after an earlier candidate had
\* failed with a message of its own.
C5_Witness ==
    /\ Returned /\ result.fallback_used = "true" /\ IsReport(result)
    /\ req.name \in providers
    /\ Len(calls) >= 4

\* C6: when the requested provider fails, use_fallback is true and every
\* fallback candidate fails too, the call returns a failure that carries the
\* requested provider's error message and the list of registered names.
C6_ExhaustedChainFailure ==
    (Returned /\ req.use_fallback /\ PrimaryFails /\ Winners = {}) =>
      /\ IsFailure(result)
      /\ Carries(result.error, PrimaryError) \/ result.original_error = PrimaryError
      /\ result.available_providers = Keys

\* C7: generate_report never raises, whatever the name, the registry, the
\* providers' behaviour (raising probes and generations included) and
\* use_fallback: it returns a failure value or a report whose score lies in
\* 0..100.
C7_NeverRaises ==
    /\ ~result.raised
    /\ Returned =>
         /\ result.returned
         /\ IsFailure(result) \/ (IsReport(result) /\ result.score \in 0..100)

\* C7 witness: the call returned although the requested provider's probe and
\* a fallback candidate's generate_report both raised.
C7_Witness ==
    /\ Returned /\ result.returned
    /\ req.name \in providers /\ behaviour[req.name] = "probe_raise"
    /\ \E c \in CandidateSet : behaviour[c] = "gen_raise" /\ Invoked(c)

\* C8: every failure value generate_report returns carries the original
\* triggering error message and the list of provider names.
C8_FailuresCarryErrorAndProviders ==
    (Returned /\ IsFailure(result)) =>
      /\ Carries(result.error, PrimaryError) \/ result.original_error = PrimaryError
      /\ result.available_providers # NoKeys

\* C10: two generate_report calls with the same failing name and
\* use_fallback=true, run with the providers' behaviour unchanged in between,
\* return the same provider_used.
C10_FallbackDeterminism ==
    (/\ Returned
     /\ prev.same
     /\ prev.name = req.name
     /\ prev.use_fallback /\ req.use_fallback
     /\ PrimaryFails)
    => result.provider_used = prev.used

\* C10 witness: the second of two such calls was answered by a fallback
\* candidate after the first call had left a cached error on a provider.
C10_Witness ==
    /\ Returned /\ prev.same /\ prev.name = req.name
    /\ prev.use_fallback /\ req.use_fallback
    /\ result.fallback_used = "true" /\ IsReport(result)
    /\ \E p \in providers : last_error[p] = "error" /\ Probed(p)

----------------------------------------------------------------------------
(* Properties of the concrete providers' generate_report                    *)

\* C9: when test_connection is true and the completion call returns
\* non-empty text, a provider's generate_report (Ollama, OpenAI, Claude)
\* returns a generated report, not a failure value.
C9_PipelineReturnsReport ==
    (prov.pc = "done" /\ prov.probe = "true" /\ prov.backend = "text") =>
      /\ IsReport(prov.ret)
      /\ prov.ret.score \in 0..100

\* C11: test_connection of every provider class never raises; whenever it
\* has returned False the instance's last_error is not None, and whenever
\* it has returned True last_error is None.
C11_ProbeNeverRaisesAndSetsLastError ==
    /\ prov.probe # "raise"
    /\ prov.probe = "false" => prov.last_error # NoError
    /\ prov.probe = "true" => prov.last_error = NoError

\* A directly called probe of an instance that has a client came back
\* False and left an error behind.
C11_Witness ==
    /\ prov.pc = "idle" /\ prov.probe = "false"
    /\ prov.cls # "ollama" /\ prov.client /\ prov.last_error # NoError

----------------------------------------------------------------------------
(* Properties of the other AIManager operations                             *)

\* The running operation op has reached its return statement.
OpsDone(op) == ops.op = op /\ ops.phase = "done"

\* The registered names whose probe, as the running operation made it,
\* returned True.
PassedProbe == {Keys[i] : i \in {j \in 1..Len(ops.returns) : ops.returns[j] = "true"}}

\* The first name of order that is in the set A.
FirstIn(order, A) ==
    order[CHOOSE i \in 1..Len(order) :
            order[i] \in A /\ \A j \in 1..(i - 1) : order[j] \notin A]

\* C12: in every descriptor of get_available_providers and every record of
\* get_provider_health, available / healthy = true implies a non-empty model
\* list, whatever other callers do to the same provider meanwhile and
\* however the backend changes between the probe and the model-list read.
C12_AvailableImpliesModels ==
    /\ ops.op = "get_available_providers" =>
         \A i \in 1..Len(ops.out) : ops.out[i].available => ops.out[i].models # << >>
    /\ ops.op = "get_provider_health" =>
         \A i \in 1..Len(ops.out) : ops.out[i].healthy => ops.out[i].models # << >>

C14_HealthRecordForEveryProvider ==
    OpsDone("get_provider_health") =>
      /\ Len(ops.out) = Len(Keys)
      /\ \A i \in 1..Len(Keys) :
           /\ ops.out[i].name = Keys[i]
           /\ ops.out[i].healthy = (ops.returns[i] = "true")
           /\ ops.returns[i] = "raise" => ops.out[i].error # Absent
           /\ ops.returns[i] # "raise" => ops.out[i].error = Absent

\* A health sweep whose second probe raised while the first and the third
\* passed.
C14_Witness ==
    /\ OpsDone("get_provider_health")
    /\ ops.returns = <<"true", "raise", "true">>
    /\ ops.out[1].healthy /\ ~ops.out[2].healthy /\ ops.out[3].healthy

\* C15: get_recommended_provider returns a provider whose probe passed when
\* there is one and the default provider when there is none; 'cost' gives
\* ollama when it passed, 'quality' the first of gpt4, claude, ollama that
\* passed, 'speed' the first of ollama, gpt4, claude that passed, and every
\* other case the first in registry order that passed.
C15_RecommendedProvider ==
    (OpsDone("get_recommended_provider") /\ ~ops.raised) =>
      /\ PassedProbe = {} => ops.ret = default_provider
      /\ PassedProbe # {} =>
           /\ ops.ret \in PassedProbe
           /\ ops.ret =
                CASE ops.arg = "cost" /\ "ollama" \in PassedProbe -> "ollama"
                  [] ops.arg = "quality" -> FirstIn(<<"gpt4", "claude", "ollama">>, PassedProbe)
                  [] ops.arg = "speed" -> FirstIn(<<"ollama", "gpt4", "claude">>, PassedProbe)
                  [] OTHER -> FirstIn(Keys, PassedProbe)

\* 'cost' was asked for, ollama did not pass its probe and claude, the only
\* one that passed, is recommended.
C15_Witness ==
    /\ OpsDone("get_recommended_provider") /\ ~ops.raised
    /\ ops.arg = "cost" /\ PassedProbe = {"claude"} /\ ops.ret = "claude"
    /\ "ollama" \in providers

\* C16: for every dataset, estimate_report_cost on 'ollama' returns
\* is_free = true and estimated_cost_usd = 0, and on gpt4 or claude it
\* returns is_free = false.
C16_ZeroCostProviderIsFree ==
    (OpsDone("estimate_report_cost") /\ ops.arg \in providers /\ ops.wellformed) =>
      /\ ops.est.error = Absent
      /\ ops.arg = "ollama" =>
           ops.est.is_free = "true" /\ ops.est.estimated_cost_usd = 0
      /\ ops.arg \in {"gpt4", "claude"} =>
           ops.est.is_free = "false" /\ ops.est.total_tokens >= EstimatedOutputTokens

\* An estimate for ollama over a dataset whose prompt is not empty.
C16_Witness ==
    /\ OpsDone("estimate_report_cost") /\ ops.arg = "ollama"
    /\ ops.est.is_free = "true" /\ ops.est.estimated_input_tokens > 100

\* C17: estimate_report_cost probes nothing and changes neither the
\* registry, the default provider, the fallback order nor any instance's
\* cached state; for an unregistered name it returns an error value, not an
\* estimate, and does not raise.
C17_EstimateTouchesNothing ==
    [][(ops.op = "none" /\ ops'.op = "estimate_report_cost") =>
         /\ UNCHANGED <<providers, default_provider, fallback_order, last_error, inst>>
         /\ ops'.probed = << >>
         /\ ~ops'.raised
         /\ ops'.arg \notin providers =>
              /\ ops'.est.error = "not_found"
              /\ ops'.est.is_free = Absent
              /\ ops'.est.estimated_cost_usd = -1]_vars

\* An estimate was asked for a name that is not registered, after probes
\* had left an error on a registered instance.
C17_Witness ==
    /\ OpsDone("estimate_report_cost") /\ ops.arg \notin providers
    /\ ops.est.error = "not_found"
    /\ \E p \in providers : last_error[p] # NoError

----------------------------------------------------------------------------
(* Properties of the formatter and the parsers                              *)

\* The dates on the "Date" lines of a prompt, in prompt order.
DatesIn(lines) ==
    LET ds == SelectSeq(lines, LAMBDA l : l.label = "Date")
    IN  [i \in 1..Len(ds) |-> ds[i].value]

\* The dates of the first n entries (or of all, when there are fewer).
FirstDates(entries, n) ==
    [i \in 1..(IF Len(entries) <= n THEN Len(entries) ELSE n) |-> entries[i].date]

\* C18: for every intern the prompt holds exactly the 7 most recent entries
\* when there are more than 7 (all of them otherwise), in dataset order, the
\* dataset being ordered most recent first; older entries are absent.
C18_SevenMostRecentEntries ==
    (fn.op = "format" /\ fn.intern_data.has_interns_data) =>
      DatesIn(fn.out) =
        Concat([k \in 1..Len(fn.intern_data.interns_data) |->
                  FirstDates(fn.intern_data.interns_data[k].logbook_entries, 7)])

\* The response holds none of the parsers' keywords.
NoKeywords(response) ==
    \A k \in 1..Len(response) : \A i \in 1..Len(response[k]) : response[k][i].kw = {}

\* C19: parsing a non-empty response without any section keyword does not
\* raise and gives empty strengths, weaknesses and recommendations and a
\* non-empty summary, for each of the three parsers.
C19_GarbageGivesEmptyLists ==
    (fn.op = "parse" /\ NoKeywords(fn.response)) =>
      /\ ~fn.content.raised
      /\ fn.content.strengths = << >>
      /\ fn.content.weaknesses = << >>
      /\ fn.content.recommendations = << >>
      /\ fn.content.summary # << >>

\* The response of the example: the section STRENGTHS with two bullet
\* lines, a blank line, the section RECOMMENDATIONS with one bullet line.
ExampleResponse ==
    <<<<ResponseLine("STRENGTHS", "STRENGTHS", 9, 9, {"strength"}, -1),
        ResponseLine("- Delivered the API on time", "Delivered the API on time", 27, 25, {}, -1),
        ResponseLine("- Clear documentation", "Clear documentation", 21, 19, {}, -1)>>,
      <<ResponseLine("RECOMMENDATIONS", "RECOMMENDATIONS", 15, 15, {"recommend"}, -1),
        ResponseLine("- Add more tests", "Add more tests", 16, 14, {}, -1)>>>>

\* C20: the example response is parsed into strengths = the two bullet
\* texts, recommendations = the one bullet text and no weaknesses: headers
\* are no items, bullets are stripped, each item is in its own section's list.
C20_ExampleResponse ==
    (fn.op = "parse" /\ fn.response = ExampleResponse) =>
      /\ fn.content.strengths = <<"Delivered the API on time", "Clear documentation">>
      /\ fn.content.recommendations = <<"Add more tests">>
      /\ fn.content.weaknesses = << >>

\* The cleaned texts of all lines of a response, in the order of the text.
CleanedOf(response) ==
    Concat([k \in 1..Len(response) |->
              [i \in 1..Len(response[k]) |-> response[k][i].cleaned]])

RECURSIVE IsSubsequence(_, _)
\* The elements of a occur in b in the same order.
IsSubsequence(a, b) ==
    CASE a = << >> -> TRUE
      [] b = << >> -> FALSE
      [] Head(a) = Head(b) -> IsSubsequence(Tail(a), Tail(b))
      [] OTHER -> IsSubsequence(a, Tail(b))

\* C21: in every parsed response each of strengths, weaknesses and
\* recommendations has at most 5 entries, and its entries are texts of the
\* response in the order in which the response has them, also when several
\* sections feed the same list.
C21_ListsCappedInSourceOrder ==
    fn.op = "parse" =>
      \A list \in {fn.content.strengths, fn.content.weaknesses,
                    fn.content.recommendations} :
        Len(list) <= 5 /\ IsSubsequence(list, CleanedOf(fn.response))

\* C22: the performance score of a parsed response depends on the ratings
\* of the dataset only: a response parsed for the same dataset as the one
\* before it, whatever its text and whether or not it is a JSON document
\* with a score of its own, gets the same score.
C22_ScoreDependsOnDatasetOnly ==
    (fn.op = "normalize" /\ fn.prev.valid /\ fn.prev.intern_data = fn.intern_data) =>
      fn.content.performance_score = fn.prev.score

\* The entries of every intern of the dataset being scored.
EntriesOf(intern_data) ==
    [k \in 1..Len(intern_data.interns_data) |-> intern_data.interns_data[k].logbook_entries]

\* The mean of the ratings that are present, in tenths.
MeanTenths(entries, field) ==
    RoundHalfEven(10 * SumOf(PresentRatings(entries, field)),
                  Len(PresentRatings(entries, field)))

\* C23: _calculate_performance_scores never divides by zero, whatever the
\* number of interns and of their entries and whether or not the entries
\* carry ratings; every metric lies between 0 and 5; a dataset whose only
\* intern has n entries gets consistency min(n / 7 * 5, 5), which is 0 for
\* no entries and 5 for seven or more, and when an intern without entries is
\* joined by one with seven or more the consistency is their mean, 2.5.
C23_ScoresBoundedWithoutFault ==
    fn.op = "scores" =>
      LET s == fn.scores
          e == EntriesOf(fn.intern_data)
      IN  /\ ~s.fault
          /\ \A m \in {s.overall_productivity, s.consistency, s.engagement,
                         s.technical_progress} : m \in 0..50
          /\ (fn.intern_data.has_interns_data /\ Len(e) = 1) =>
                /\ Len(e[1]) = 0 => s.consistency = 0
                /\ Len(e[1]) >= 7 => s.consistency = 50
                /\ Len(e[1]) < 7 => s.consistency = RoundHalfEven(10 * 5 * Len(e[1]), 7)
          /\ (fn.intern_data.has_interns_data /\ Len(e) = 2
                /\ Len(e[1]) = 0 /\ Len(e[2]) >= 7) => s.consistency = 25

\* The scores of two interns were computed: one without entries, and one
\* with entries none of which carries a rating.
C23_Witness ==
    /\ fn.op = "scores"
    /\ fn.intern_data.has_interns_data
    /\ Len(fn.intern_data.interns_data) = 2
    /\ EntriesOf(fn.intern_data)[1] = << >>
    /\ Len(EntriesOf(fn.intern_data)[2]) = 2
    /\ PresentRatings(EntriesOf(fn.intern_data)[2], "productivity_self_rating") = << >>
    /\ fn.scores.consistency = 7
    /\ fn.scores.overall_productivity = 0

\* C24: the productivity and the mood of an intern are the mean of the
\* ratings that are present, in the performance scores of a dataset of one
\* intern as well as in the per-intern analysis of up to seven entries.
C24_MeanOverPresentRatings ==
    /\ (fn.op = "scores" /\ fn.intern_data.has_interns_data
          /\ Len(fn.intern_data.interns_data) = 1) =>
         LET entries == EntriesOf(fn.intern_data)[1]
         IN  /\ PresentRatings(entries, "productivity_self_rating") # << >> =>
                   fn.scores.overall_productivity
                     = MeanTenths(entries, "productivity_self_rating")
             /\ PresentRatings(entries, "mood_rating") # << >> =>
                   fn.scores.engagement = MeanTenths(entries, "mood_rating")
    /\ fn.op = "analysis" =>
         \A k \in 1..Len(fn.analysis) :
           LET entries == LastN(EntriesOf(fn.intern_data)[k], 7)
           IN  /\ PresentRatings(entries, "productivity_self_rating") # << >> =>
                     fn.analysis[k].avg_productivity
                       = MeanTenths(entries, "productivity_self_rating")
               /\ PresentRatings(entries, "mood_rating") # << >> =>
                     fn.analysis[k].avg_mood = MeanTenths(entries, "mood_rating")

\* The positions of the entries of calls that are method m of provider p.
CallsOf(p, m) == {i \in 1..Len(calls) : calls[i] = <<p, m>>}

\* C25: within one AIManager.generate_report call every provider is probed
\* at most once and asked to generate at most once, and only after its own
\* probe; the requested provider is called before every other provider and
\* never again; a provider that was left is not returned to; the number of
\* generate_report invocations is at most the number of registered
\* providers.
C25_EachProviderTriedOnce ==
    /\ \A p \in ProviderNames :
         /\ Cardinality(CallsOf(p, "test_connection")) <= 1
         /\ Cardinality(CallsOf(p, "generate_report")) <= 1
         /\ \A i \in CallsOf(p, "generate_report") :
              i > 1 /\ calls[i - 1] = <<p, "test_connection">>
    /\ \A i \in 1..Len(calls) :
         /\ calls[i][1] \in providers
         /\ calls[i][1] = req.name => i <= 2
         /\ \A j \in 1..Len(calls) :
              (i < j /\ calls[i][1] = calls[j][1]) => j = i + 1
    /\ Cardinality({i \in 1..Len(calls) : calls[i][2] = "generate_report"})
         <= Cardinality(providers)

\* A call has returned after the requested provider and both fallback
\* candidates passed their probe and failed to generate.
C25_Witness ==
    /\ pc = "done"
    /\ providers = ProviderNames
    /\ Len(calls) = 6
    /\ calls[2] = <<req.name, "generate_report">>
    /\ \A p \in ProviderNames : CallsOf(p, "generate_report") # {}
    /\ result.success = "false"

\* The calls of one request come one after the other: the first call of a
\* provider follows a call of another provider only if that one had failed
\* (its probe was negative or raised, or its generation raised), and nothing
\* is called after a generation that returned.
OneAtATime ==
    \A i \in 1..Len(calls) :
      /\ (i < Len(calls) /\ calls[i][1] # calls[i + 1][1]) =>
            /\ behaviour[calls[i][1]] \in {"probe_false", "probe_raise", "gen_raise"}
            /\ calls[i + 1][2] = "test_connection"
            /\ behaviour[calls[i][1]] = "gen_raise" <=> calls[i][2] = "generate_report"
      /\ (calls[i][2] = "generate_report"
            /\ behaviour[calls[i][1]] \in {"healthy", "gen_failure"}) =>
            i = Len(calls) /\ pc = "done"

\* C26: when every provider call returns, every AIManager.generate_report
\* call returns a result, and within the call the providers are attempted
\* one at a time, the next one only after the one before has failed.
C26_ReturnsAfterSequentialAttempts ==
    /\ [](pc # "idle" => <>(pc = "done" /\ (result.returned \/ result.raised)))
    /\ []OneAtATime

\* A call has returned the report of the second fallback candidate after the
\* requested provider's generation raised and the first candidate's probe
\* was negative.
C26_Witness ==
    /\ pc = "done"
    /\ Len(calls) = 5
    /\ IsReport(result)
    /\ result.fallback_used = "true"
    /\ calls[2] = <<req.name, "generate_report">>
    /\ calls[3][2] = "test_connection"
    /\ calls[4][1] # calls[3][1]
    /\ calls[5][2] = "generate_report"

\* A direct call of OllamaProvider.set_model is made in this step.
SetModelStep == ops.op = "none" /\ ops'.op = "set_model"

\* C27: apart from set_model itself, no step (a probe, a model listing, a
\* manager operation) changes the model an instance has selected or its
\* client; only the cached model list and last_error change.
C27_ProbesKeepSelectedModel ==
    [][SetModelStep \/ \A p \in ProviderNames :
                          /\ inst'[p].model_name = inst[p].model_name
                          /\ inst'[p].client = inst[p].client]_vars

\* C28: the registry holds none but the three known providers, and no
\* operation of the manager or of a provider changes the registry or the
\* fallback order.
C28_RegistryFixed ==
    /\ [](providers \subseteq ProviderNames)
    /\ [][providers' = providers /\ fallback_order' = fallback_order]_vars

\* set_default_provider was asked for a provider that is not registered and
\* answered False, the registry being incomplete.
C28_Witness ==
    /\ ops.op = "set_default_provider"
    /\ ops.arg \in ProviderNames \ providers
    /\ ops.ret = "false"

\* A probe of OllamaProvider has run before: it left an error or a list.
OllamaProbedBefore ==
    last_error["ollama"] # NoError \/ inst["ollama"].available_models # << >>

\* C29: a direct get_available_models on a provider that was probed before
\* makes no backend call and returns the list the instance holds.
C29_ListingProbesOnlyOnce ==
    [][(ops.op = "none" /\ ops'.op = "get_available_models"
          /\ (ops'.arg = "ollama" => OllamaProbedBefore)) =>
         /\ ops'.probed = << >>
         /\ ops'.out = inst[ops'.arg].available_models
         /\ UNCHANGED <<inst, last_error>>]_vars

\* C30: the default provider is 'ollama' or a registered provider;
\* set_default_provider returns True only for a registered provider whose
\* probe passed and then makes it the default, and otherwise leaves the
\* default as it was; nothing else changes the default; and
\* get_recommended_provider returns a provider that passed its probe in that
\* call unless none passed, when it returns the default.
C30_DefaultOnlyViaPassedProbe ==
    /\ [](default_provider \in {"ollama"} \cup providers)
    /\ []((OpsDone("get_recommended_provider") /\ ~ops.raised) =>
            IF ops.available_providers = << >>
              THEN ops.ret = default_provider
              ELSE /\ ops.ret \in providers
                   /\ \E i \in 1..Len(ops.available_providers) :
                        ops.ret = ops.available_providers[i]
                   /\ \E i \in 1..Len(ops.probed) :
                        ops.probed[i] = ops.ret /\ ops.returns[i] = "true")
    /\ [][IF ops.op = "none" /\ ops'.op = "set_default_provider" /\ ops'.ret = "true"
            THEN /\ ops'.arg \in providers
                 /\ ops'.returns = <<"true">>
                 /\ default_provider' = ops'.arg
            ELSE default_provider' = default_provider]_vars

\* get_recommended_provider found no provider available and returned the
\* default, which an earlier set_default_provider had changed to gpt4.
C30_Witness ==
    /\ OpsDone("get_recommended_provider")
    /\ ~ops.raised
    /\ ops.available_providers = << >>
    /\ ops.ret = "gpt4"
    /\ default_provider = "gpt4"

====
